---- MODULE Spec2Model ----
(***************************************************************************)
(* Model of examples/minginx.rs: a TCP relay.  main binds a listener and   *)
(* loops on accept; every accepted client is moved into a spawned task     *)
(* that connects to the upstream and calls proxy, which joins two          *)
(* tokio::io::copy futures (client -> upstream and upstream -> client)     *)
(* with tokio::try_join!.                                                  *)
(*                                                                         *)
(* Two further examples are modelled next to it, each with a specification *)
(* of its own in which the other programs stay as they start:              *)
(* examples/tokio2.rs, a producer task feeding a worker thread through a   *)
(* bounded channel, and examples/axum_serde.rs, two handlers sharing a     *)
(* User behind a mutex.                                                    *)
(***************************************************************************)
EXTENDS Integers, Sequences, FiniteSets, TLC

\* Number of client connections that arrive at the listener.
MaxConn == 2
\* Number of bytes the peers send in total, over all connections and both
\* directions.
MaxBytes == 2

Conn == 1..MaxConn
C2U == "client_to_upstream"
U2C == "upstream_to_client"
Dir == {C2U, U2C}
Other(d) == IF d = C2U THEN U2C ELSE C2U

\* The i-th byte the client (resp. the upstream) of connection c sends.
\* Bytes are distinct across connections, directions and positions.
ClientByte(c, i) == c * 100 + i
UpstreamByte(c, i) == c * 100 + 50 + i

VARIABLES
    lpc,      \* position of main: "bind", "accept", "log", "spawn", "exit"
    lerr,     \* error main returned with: "none", "BindError", "AcceptError"
    cur,      \* connection main holds between accept and spawn (0: none)
    nacc,     \* number of connections accepted so far
    st,       \* per connection: state of its relay unit
    owner,    \* per connection: "none", "listener", "unit"
    failure,  \* per connection: "none", "UpstreamUnreachable", "PumpError"
    result,   \* per connection: output of the spawned task: "none", "Ok", "Err"
    csock,    \* per connection: the relay's client socket: "none", "open", "closed"
    usock,    \* per connection: the relay's upstream socket
    nconnect, \* per connection: number of upstream connect attempts
    peer,     \* per connection and direction: what the sending peer did
    pump,     \* per connection and direction: the io::copy future
    dst,      \* per connection and direction: bytes written to the destination
    ev,       \* per connection: the log records emitted for it
    config,   \* the Config built at startup and shared by every task
    uaddr,    \* per connection: the address its connect was issued to
    early,    \* per connection: what the client had sent when the connect succeeded
    \* tokio2.rs
    prod_i,   \* the producer's counter i
    prod_pc,  \* position of the producer task: "loop", "send"
    chan,     \* the messages queued in mpsc::channel(32)
    wk_pc,    \* position of the worker thread: "recv", "spawn", "wait", "print"
    wk_s,     \* the message s the worker holds
    threads,  \* the messages of the blocking-task threads that run
    retchan,  \* the results queued in the std::sync::mpsc channel
    wk_result,\* the result the worker took from receiver.recv()
    stdout,   \* the results printed so far
    \* axum_serde.rs
    user,     \* the User behind Arc<Mutex<User>>
    mutex,    \* the handler holding the lock (0: free)
    hpc,      \* per request: position of its handler
    hreq,     \* per request: method and body
    hsnap,    \* per request: the User its handler found when it took the lock
    resp,     \* per request: the Json<User> returned
    committed \* the values User had whenever the lock was free

tokio2vars == <<prod_i, prod_pc, chan, wk_pc, wk_s, threads, retchan,
                wk_result, stdout>>

axumvars == <<user, mutex, hpc, hreq, hsnap, resp, committed>>

minginxvars == <<lpc, lerr, cur, nacc, st, owner, failure, result, csock,
                 usock, nconnect, peer, pump, dst, ev, config, uaddr, early>>

vars == <<lpc, lerr, cur, nacc, st, owner, failure, result, csock, usock,
          nconnect, peer, pump, dst, ev, config, uaddr, early, tokio2vars,
          axumvars>>

lvars == <<lpc, lerr, cur, nacc>>

\* The sending side of one direction: the bytes the peer has written, whether
\* it has closed its write side, and the bytes queued at the relay's socket.
NoPeer == [sent |-> <<>>, fin |-> FALSE, inq |-> <<>>]

\* An io::copy future: "idle" before proxy creates it, "run" while polled,
\* "done" once it returned Ok(amt), "err" once it returned Err, "dropped" when
\* it was dropped before completing.
NoPump == [state |-> "idle", buf |-> <<>>, read_done |-> FALSE, amt |-> 0]

Terminal == {"Completed", "Failed", "Cancelled"}

\* resolve_config(): the hardcoded addresses.
resolve_config ==
    [upstream_addr |-> "0.0.0.0:8080", listen_addr |-> "0.0.0.0:8081"]


\* tokio2.rs: mpsc::channel(32).
ChannelCapacity == 32

\* Number of tasks the producer sends.
MaxTasks == 35

\* format!("task {i}")
Task(n) == <<"task", n>>

\* expensive_blocking_task(s): the blake3 hash of the message.
expensive_blocking_task(m) == <<"blake3", m>>

\* tokio2.rs after main created the channel, started the worker and spawned
\* the producer.
InitTokio2 ==
    /\ prod_i = 0
    /\ prod_pc = "loop"
    /\ chan = <<>>
    /\ wk_pc = "recv"
    /\ wk_s = <<>>
    /\ threads = {}
    /\ retchan = <<>>
    /\ wk_result = <<>>
    /\ stdout = <<>>

\* Number of requests the axum_serde server receives.
MaxReq == 3
Req == 1..MaxReq

\* axum_serde.rs: the User main builds.
Alice == [name |-> "Alice", age |-> 30, skills |-> <<"Rust", "WebAssembly">>]

\* Option<T>: <<>> is None, <<v>> is Some(v).
None == <<>>
Some(v) == <<v>>

\* The bodies of the PATCH requests: UserUpdate { age, skills }.
UserUpdate ==
    [age : {None, Some(31), Some(32)}, skills : {None, Some(<<"Go">>)}]

NoRequest == [method |-> "none", body |-> [age |-> None, skills |-> None]]

\* axum_serde.rs once axum::serve runs.
InitAxum ==
    /\ user = Alice
    /\ mutex = 0
    /\ hpc = [r \in Req |-> "idle"]
    /\ hreq = [r \in Req |-> NoRequest]
    /\ hsnap = [r \in Req |-> Alice]
    /\ resp = [r \in Req |-> None]
    /\ committed = {Alice}

Init ==
    /\ lpc = "bind"
    /\ lerr = "none"
    /\ cur = 0
    /\ nacc = 0
    /\ st = [c \in Conn |-> "None"]
    /\ owner = [c \in Conn |-> "none"]
    /\ failure = [c \in Conn |-> "none"]
    /\ result = [c \in Conn |-> "none"]
    /\ csock = [c \in Conn |-> "none"]
    /\ usock = [c \in Conn |-> "none"]
    /\ nconnect = [c \in Conn |-> 0]
    /\ peer = [c \in Conn |-> [d \in Dir |-> NoPeer]]
    /\ pump = [c \in Conn |-> [d \in Dir |-> NoPump]]
    /\ dst = [c \in Conn |-> [d \in Dir |-> <<>>]]
    /\ ev = [c \in Conn |-> <<>>]
    /\ config = resolve_config
    /\ uaddr = [c \in Conn |-> "none"]
    /\ early = [c \in Conn |-> <<>>]
    /\ InitTokio2
    /\ InitAxum

Event(kind, c, n, m) == [kind |-> kind, addr |-> c, n |-> n, m |-> m]


\* Variant: the chunk is taken from the end of what is available.
TakeLast(s, k) == SubSeq(s, Len(s) - k + 1, Len(s))

Take(s, k) == SubSeq(s, 1, k)
Drop(s, k) == SubSeq(s, k + 1, Len(s))

(***************************************************************************)
(* main                                                                    *)
(***************************************************************************)

\* TcpListener::bind(..).await? succeeds: main enters the loop.
BindOk ==
    /\ lpc = "bind"
    /\ lpc' = "accept"
    /\ UNCHANGED <<lerr, cur, nacc, st, owner, failure, result, csock, usock,
                   nconnect, peer, pump, dst, ev, config, uaddr,
                   early, tokio2vars, axumvars>>


\* Variant: the bind error is recorded and main enters the loop all the same.
BindErrIgnored ==
    /\ lpc = "bind"
    /\ lpc' = "accept"
    /\ lerr' = "BindError"
    /\ UNCHANGED <<cur, nacc, st, owner, failure, result, csock, usock,
                   nconnect, peer, pump, dst, ev, config, uaddr,
                   early, tokio2vars, axumvars>>

\* TcpListener::bind(..).await? fails: main returns the error.
BindErr ==
    /\ lpc = "bind"
    /\ lpc' = "exit"
    /\ lerr' = "BindError"
    /\ UNCHANGED <<cur, nacc, st, owner, failure, result, csock, usock,
                   nconnect, peer, pump, dst, ev, config, uaddr,
                   early, tokio2vars, axumvars>>

\* Variant: main awaits every spawned task before it accepts again.
AcceptOkSerial ==
    /\ lpc = "accept"
    /\ nacc < MaxConn
    /\ \A b \in Conn : owner[b] = "unit" => st[b] \in Terminal
    /\ LET c == nacc + 1 IN
        /\ cur' = c
        /\ nacc' = c
        /\ st' = [st EXCEPT ![c] = "Accepted"]
        /\ owner' = [owner EXCEPT ![c] = "listener"]
        /\ csock' = [csock EXCEPT ![c] = "open"]
    /\ lpc' = "log"
    /\ UNCHANGED <<lerr, failure, result, usock, nconnect, peer, pump, dst, ev,
                   config, uaddr,
                   early, tokio2vars, axumvars>>

\* listener.accept().await? yields the next client.
AcceptOk ==
    /\ lpc = "accept"
    /\ nacc < MaxConn
    /\ LET c == nacc + 1 IN
        /\ cur' = c
        /\ nacc' = c
        /\ st' = [st EXCEPT ![c] = "Accepted"]
        /\ owner' = [owner EXCEPT ![c] = "listener"]
        /\ csock' = [csock EXCEPT ![c] = "open"]
    /\ lpc' = "log"
    /\ UNCHANGED <<lerr, failure, result, usock, nconnect, peer, pump, dst, ev,
                   config, uaddr,
                   early, tokio2vars, axumvars>>


\* Variant: the accepted connection is dispatched without a record.
LogAcceptedSilent ==
    /\ lpc = "log"
    /\ lpc' = "spawn"
    /\ UNCHANGED <<lerr, cur, nacc, st, owner, failure, result, csock, usock,
                   nconnect, peer, pump, dst, ev, config, uaddr,
                   early, tokio2vars, axumvars>>

\* info!("Accepted connection from {}", addr)
LogAccepted ==
    /\ lpc = "log"
    /\ ev' = [ev EXCEPT ![cur] = Append(@, Event("accepted", cur, 0, 0))]
    /\ lpc' = "spawn"
    /\ UNCHANGED <<lerr, cur, nacc, st, owner, failure, result, csock, usock,
                   nconnect, peer, pump, dst, config, uaddr,
                   early, tokio2vars, axumvars>>


\* Variant: main returns Ok(()) after the first spawn instead of looping.
SpawnOnce ==
    /\ lpc = "spawn"
    /\ owner' = [owner EXCEPT ![cur] = "unit"]
    /\ cur' = 0
    /\ lpc' = "exit"
    /\ UNCHANGED <<lerr, nacc, st, failure, result, csock, usock, nconnect,
                   peer, pump, dst, ev, config, uaddr,
                   early, tokio2vars, axumvars>>

\* Variant: the task gets a shared handle and main keeps the client.
SpawnKeepsClient ==
    /\ lpc = "spawn"
    /\ owner' = [owner EXCEPT ![cur] = "unit"]
    /\ lpc' = "accept"
    /\ UNCHANGED <<lerr, cur, nacc, st, failure, result, csock, usock,
                   nconnect, peer, pump, dst, ev, config, uaddr,
                   early, tokio2vars, axumvars>>


\* Variant: a ceiling of one active unit; while a unit is active the accepted
\* client is dropped instead of dispatched.
SpawnCapped ==
    /\ lpc = "spawn"
    /\ IF \E b \in Conn : owner[b] = "unit" /\ st[b] \notin Terminal
       THEN /\ owner' = [owner EXCEPT ![cur] = "none"]
            /\ st' = [st EXCEPT ![cur] = "Cancelled"]
            /\ csock' = [csock EXCEPT ![cur] = "closed"]
       ELSE /\ owner' = [owner EXCEPT ![cur] = "unit"]
            /\ UNCHANGED <<st, csock>>
    /\ cur' = 0
    /\ lpc' = "accept"
    /\ UNCHANGED <<lerr, nacc, failure, result, usock, nconnect,
                   peer, pump, dst, ev, config, uaddr,
                   early, tokio2vars, axumvars>>

\* tokio::spawn(async move { .. }): the client moves into the new task and
\* main goes back to accept.
Spawn ==
    /\ lpc = "spawn"
    /\ owner' = [owner EXCEPT ![cur] = "unit"]
    /\ cur' = 0
    /\ lpc' = "accept"
    /\ UNCHANGED <<lerr, nacc, st, failure, result, csock, usock, nconnect,
                   peer, pump, dst, ev, config, uaddr,
                   early, tokio2vars, axumvars>>

CloseSockNoop(s) == s

\* What dropping a task does to its connection: the future and everything it
\* owns (the sockets, the copy futures) are dropped.
DropPump(p) == IF p.state = "run" THEN [p EXCEPT !.state = "dropped"] ELSE p
\* Dropping a TcpStream closes it.
CloseSock(s) == IF s = "open" THEN "closed" ELSE s
Live(c) == owner[c] = "unit" /\ st[c] \notin Terminal

\* Variant: the accept error is recorded and the loop goes on.
AcceptErrContinue ==
    /\ lpc = "accept"
    /\ lerr' = "AcceptError"
    /\ UNCHANGED <<lpc, cur, nacc, st, owner, failure, result, csock, usock,
                   nconnect, peer, pump, dst, ev, config, uaddr,
                   early, tokio2vars, axumvars>>


\* Variant: main returns the error and the spawned tasks run on.
AcceptErrDetached ==
    /\ lpc = "accept"
    /\ lpc' = "exit"
    /\ lerr' = "AcceptError"
    /\ UNCHANGED <<cur, nacc, st, owner, failure, result, csock, usock,
                   nconnect, peer, pump, dst, ev, config, uaddr,
                   early, tokio2vars, axumvars>>

\* listener.accept().await? fails: main returns the error, the runtime built
\* by #[tokio::main] is dropped and with it every task still running.
AcceptErr ==
    /\ lpc = "accept"
    /\ lpc' = "exit"
    /\ lerr' = "AcceptError"
    /\ st' = [c \in Conn |-> IF Live(c) THEN "Cancelled" ELSE st[c]]
    /\ csock' = [c \in Conn |-> IF Live(c) THEN CloseSock(csock[c]) ELSE csock[c]]
    /\ usock' = [c \in Conn |-> IF Live(c) THEN CloseSock(usock[c]) ELSE usock[c]]
    /\ pump' = [c \in Conn |-> IF Live(c)
                               THEN [d \in Dir |-> DropPump(pump[c][d])]
                               ELSE pump[c]]
    /\ UNCHANGED <<cur, nacc, owner, failure, result, nconnect, peer, dst, ev,
                   config, uaddr,
                   early, tokio2vars, axumvars>>

(***************************************************************************)
(* the spawned task                                                        *)
(***************************************************************************)


\* Variant: connections are handled one at a time; a unit starts only when
\* no other unit is connecting or relaying.
StartConnectBlocking(c) ==
    /\ st[c] = "Accepted"
    /\ owner[c] = "unit"
    /\ \A b \in Conn \ {c} : st[b] \notin {"ConnectingUpstream", "Relaying"}
    /\ st' = [st EXCEPT ![c] = "ConnectingUpstream"]
    /\ nconnect' = [nconnect EXCEPT ![c] = @ + 1]
    /\ uaddr' = [uaddr EXCEPT ![c] = config.upstream_addr]
    /\ UNCHANGED <<lvars, owner, failure, result, csock, usock, peer, pump,
                   dst, ev, config,
                   early, tokio2vars, axumvars>>

\* Variant: the task connects to the address the server listens on.
StartConnectListenAddr(c) ==
    /\ st[c] = "Accepted"
    /\ owner[c] = "unit"
    /\ st' = [st EXCEPT ![c] = "ConnectingUpstream"]
    /\ nconnect' = [nconnect EXCEPT ![c] = @ + 1]
    /\ uaddr' = [uaddr EXCEPT ![c] = config.listen_addr]
    /\ UNCHANGED <<lvars, owner, failure, result, csock, usock, peer, pump,
                   dst, ev, config,
                   early, tokio2vars, axumvars>>

\* Variant: a unit reuses the upstream connection another unit has open
\* instead of connecting.
StartConnectReuse(c) ==
    /\ st[c] = "Accepted"
    /\ owner[c] = "unit"
    /\ IF \E b \in Conn : usock[b] = "open"
       THEN /\ st' = [st EXCEPT ![c] = "Relaying"]
            /\ usock' = [usock EXCEPT ![c] = "open"]
            /\ pump' = [pump EXCEPT ![c] =
                           [d \in Dir |-> [NoPump EXCEPT !.state = "run"]]]
            /\ UNCHANGED <<nconnect, uaddr>>
       ELSE /\ st' = [st EXCEPT ![c] = "ConnectingUpstream"]
            /\ nconnect' = [nconnect EXCEPT ![c] = @ + 1]
            /\ uaddr' = [uaddr EXCEPT ![c] = config.upstream_addr]
            /\ UNCHANGED <<usock, pump>>
    /\ UNCHANGED <<lvars, owner, failure, result, csock, peer, dst, ev, config,
                   early, tokio2vars, axumvars>>

\* First poll of the task: TcpStream::connect(&upstream_addr) is issued.
StartConnect(c) ==
    /\ st[c] = "Accepted"
    /\ owner[c] = "unit"
    /\ st' = [st EXCEPT ![c] = "ConnectingUpstream"]
    /\ nconnect' = [nconnect EXCEPT ![c] = @ + 1]
    /\ uaddr' = [uaddr EXCEPT ![c] = config.upstream_addr]
    /\ UNCHANGED <<lvars, owner, failure, result, csock, usock, peer, pump,
                   dst, ev, config,
                   early, tokio2vars, axumvars>>

\* Variant: what the client sent before the upstream connection was
\* established is discarded when the relay starts.
ConnectOkDiscards(c) ==
    /\ st[c] = "ConnectingUpstream"
    /\ st' = [st EXCEPT ![c] = "Relaying"]
    /\ usock' = [usock EXCEPT ![c] = "open"]
    /\ pump' = [pump EXCEPT ![c] = [d \in Dir |-> [NoPump EXCEPT !.state = "run"]]]
    /\ early' = [early EXCEPT ![c] = peer[c][C2U].sent]
    /\ peer' = [peer EXCEPT ![c][C2U].inq = <<>>]
    /\ UNCHANGED <<lvars, owner, failure, result, csock, nconnect, dst, ev,
                   config, uaddr, tokio2vars, axumvars>>

\* connect succeeds; proxy splits both streams and creates the two copies.
ConnectOk(c) ==
    /\ st[c] = "ConnectingUpstream"
    /\ st' = [st EXCEPT ![c] = "Relaying"]
    /\ usock' = [usock EXCEPT ![c] = "open"]
    /\ pump' = [pump EXCEPT ![c] = [d \in Dir |-> [NoPump EXCEPT !.state = "run"]]]
    /\ early' = [early EXCEPT ![c] = peer[c][C2U].sent]
    /\ UNCHANGED <<lvars, owner, failure, result, csock, nconnect, peer, dst, ev,
                   config, uaddr, tokio2vars, axumvars>>

\* Variant: the connect error is unwound into main, which returns it.
ConnectErrFatal(c) ==
    /\ st[c] = "ConnectingUpstream"
    /\ st' = [st EXCEPT ![c] = "Failed"]
    /\ failure' = [failure EXCEPT ![c] = "UpstreamUnreachable"]
    /\ result' = [result EXCEPT ![c] = "Err"]
    /\ csock' = [csock EXCEPT ![c] = CloseSock(@)]
    /\ lpc' = "exit"
    /\ lerr' = "UpstreamUnreachable"
    /\ UNCHANGED <<cur, nacc, owner, usock, nconnect, peer, pump, dst, ev,
                   config, uaddr,
                   early, tokio2vars, axumvars>>

\* Variant: the task keeps the client open after the connect error.
ConnectErrLeak(c) ==
    /\ st[c] = "ConnectingUpstream"
    /\ st' = [st EXCEPT ![c] = "Failed"]
    /\ failure' = [failure EXCEPT ![c] = "UpstreamUnreachable"]
    /\ result' = [result EXCEPT ![c] = "Err"]
    /\ UNCHANGED <<lvars, owner, csock, usock, nconnect, peer, pump, dst, ev,
                   config, uaddr,
                   early, tokio2vars, axumvars>>


\* Variant: the task tries the connect again after an error.
ConnectErrRetry(c) ==
    /\ st[c] = "ConnectingUpstream"
    /\ st' = [st EXCEPT ![c] = "Accepted"]
    /\ UNCHANGED <<lvars, owner, failure, result, csock, usock, nconnect, peer,
                   pump, dst, ev, config, uaddr,
                   early, tokio2vars, axumvars>>


\* Variant: the task answers the client with an error payload before it
\* gives up.
ConnectErrReplies(c) ==
    /\ st[c] = "ConnectingUpstream"
    /\ st' = [st EXCEPT ![c] = "Failed"]
    /\ failure' = [failure EXCEPT ![c] = "UpstreamUnreachable"]
    /\ result' = [result EXCEPT ![c] = "Err"]
    /\ dst' = [dst EXCEPT ![c][U2C] = Append(@, 502)]
    /\ csock' = [csock EXCEPT ![c] = CloseSock(@)]
    /\ UNCHANGED <<lvars, owner, usock, nconnect, peer, pump, ev, config, uaddr,
                   early, tokio2vars, axumvars>>

\* connect fails: `?` returns the error as the task's output; the task's
\* JoinHandle was dropped by main, so nobody reads it.  The client, owned by
\* the task, is dropped.
ConnectErr(c) ==
    /\ st[c] = "ConnectingUpstream"
    /\ st' = [st EXCEPT ![c] = "Failed"]
    /\ failure' = [failure EXCEPT ![c] = "UpstreamUnreachable"]
    /\ result' = [result EXCEPT ![c] = "Err"]
    /\ csock' = [csock EXCEPT ![c] = CloseSock(@)]
    /\ UNCHANGED <<lvars, owner, usock, nconnect, peer, pump, dst, ev,
                   config, uaddr,
                   early, tokio2vars, axumvars>>

(***************************************************************************)
(* proxy                                                                   *)
(***************************************************************************)

\* Variant: a select, ready as soon as either future returned.
TryJoinRace(a, b) ==
    IF a = "err" \/ b = "err" THEN "Err"
    ELSE IF a = "done" \/ b = "done" THEN "Ok"
    ELSE "Pending"

\* Variant: only the client -> upstream copy is awaited.
TryJoinClientOnly(a, b) ==
    IF a = "err" \/ b = "err" THEN "Err"
    ELSE IF a = "done" THEN "Ok"
    ELSE "Pending"

\* Variant: tokio::join!, ready only once both futures returned.
TryJoinWaitBoth(a, b) ==
    IF a \in {"done", "err"} /\ b \in {"done", "err"}
    THEN (IF a = "err" \/ b = "err" THEN "Err" ELSE "Ok")
    ELSE "Pending"

\* tokio::try_join!(a, b): Err as soon as one future returned Err, Ok once
\* both returned Ok, pending otherwise.
TryJoin(a, b) ==
    IF a = "err" \/ b = "err" THEN "Err"
    ELSE IF a = "done" /\ b = "done" THEN "Ok"
    ELSE "Pending"


\* Variant: the success record is written whatever the join returned.
ProxyAlwaysInfo(c, p) ==
    LET j == TryJoin(p[C2U].state, p[U2C].state) IN
    IF j = "Pending"
    THEN /\ pump' = [pump EXCEPT ![c] = p]
         /\ UNCHANGED <<st, failure, result, csock, usock, ev>>
    ELSE /\ pump' = [pump EXCEPT ![c] = [d \in Dir |-> DropPump(p[d])]]
         /\ st' = [st EXCEPT ![c] = IF j = "Ok" THEN "Completed" ELSE "Failed"]
         /\ failure' = [failure EXCEPT ![c] = IF j = "Ok" THEN "none" ELSE "PumpError"]
         /\ ev' = [ev EXCEPT ![c] = Append(@,
                      Event("proxied", c, p[C2U].amt, p[U2C].amt))]
         /\ result' = [result EXCEPT ![c] = "Ok"]
         /\ csock' = [csock EXCEPT ![c] = CloseSock(@)]
         /\ usock' = [usock EXCEPT ![c] = CloseSock(@)]


\* Variant: the outcome record is written as soon as the first copy
\* returned, before the join is ready.
ProxyLogsEarly(c, p) ==
    LET j == TryJoin(p[C2U].state, p[U2C].state)
        logged == \E x \in 1..Len(ev[c]) : ev[c][x].kind \in {"proxied", "error"}
        record == IF j = "Err"
                  THEN Event("error", c, 0, 0)
                  ELSE Event("proxied", c, p[C2U].amt, p[U2C].amt)
    IN
    IF j = "Pending"
    THEN /\ pump' = [pump EXCEPT ![c] = p]
         /\ ev' = IF ~logged /\ \E d \in Dir : p[d].state = "done"
                  THEN [ev EXCEPT ![c] = Append(@, record)]
                  ELSE ev
         /\ UNCHANGED <<st, failure, result, csock, usock>>
    ELSE /\ pump' = [pump EXCEPT ![c] = [d \in Dir |-> DropPump(p[d])]]
         /\ st' = [st EXCEPT ![c] = IF j = "Ok" THEN "Completed" ELSE "Failed"]
         /\ failure' = [failure EXCEPT ![c] = IF j = "Ok" THEN "none" ELSE "PumpError"]
         /\ ev' = IF logged THEN ev ELSE [ev EXCEPT ![c] = Append(@, record)]
         /\ result' = [result EXCEPT ![c] = "Ok"]
         /\ csock' = [csock EXCEPT ![c] = CloseSock(@)]
         /\ usock' = [usock EXCEPT ![c] = CloseSock(@)]

\* The rest of proxy after a poll of the joined copies left them as p.  When
\* the join is ready the match arm logs, proxy returns Ok(()) and client and
\* upstream, owned by proxy, are dropped.
Proxy(c, p) ==
    LET j == TryJoin(p[C2U].state, p[U2C].state) IN
    IF j = "Pending"
    THEN /\ pump' = [pump EXCEPT ![c] = p]
         /\ UNCHANGED <<st, failure, result, csock, usock, ev>>
    ELSE /\ pump' = [pump EXCEPT ![c] = [d \in Dir |-> DropPump(p[d])]]
         /\ st' = [st EXCEPT ![c] = IF j = "Ok" THEN "Completed" ELSE "Failed"]
         /\ failure' = [failure EXCEPT ![c] = IF j = "Ok" THEN "none" ELSE "PumpError"]
         /\ ev' = [ev EXCEPT ![c] = Append(@,
                      IF j = "Ok"
                      THEN Event("proxied", c, p[C2U].amt, p[U2C].amt)
                      ELSE Event("error", c, 0, 0))]
         /\ result' = [result EXCEPT ![c] = "Ok"]
         /\ csock' = [csock EXCEPT ![c] = CloseSock(@)]
         /\ usock' = [usock EXCEPT ![c] = CloseSock(@)]

\* Variant: the copy returns at EOF without writing out what it buffered.
FinishAtEof(q) ==
    IF q.read_done THEN [q EXCEPT !.state = "done"] ELSE q

\* io::copy returns Ok(amt) once the reader reported EOF and the buffer is
\* written out (the flush of a TcpStream is immediate).
Finish(q) ==
    IF q.read_done /\ q.buf = <<>> THEN [q EXCEPT !.state = "done"] ELSE q



\* Variant: the two copies are awaited one after the other, the upstream ->
\* client copy starting only when the client -> upstream copy returned.
CopyReadSequential(c, d, k) ==
    /\ st[c] = "Relaying"
    /\ pump[c][d].state = "run"
    /\ d = U2C => pump[c][C2U].state = "done"
    /\ ~pump[c][d].read_done
    /\ k \in 1..Len(peer[c][d].inq)
    /\ peer' = [peer EXCEPT ![c][d].inq = Drop(@, k)]
    /\ pump' = [pump EXCEPT ![c][d].buf = @ \o Take(peer[c][d].inq, k)]
    /\ UNCHANGED <<lvars, st, owner, failure, result, csock, usock, nconnect,
                   dst, ev, config, uaddr,
                   early, tokio2vars, axumvars>>

\* Variant: every unit reads from the sockets of the first connection.
CopyReadShared(c, d, k) ==
    /\ st[c] = "Relaying"
    /\ pump[c][d].state = "run"
    /\ ~pump[c][d].read_done
    /\ k \in 1..Len(peer[1][d].inq)
    /\ peer' = [peer EXCEPT ![1][d].inq = Drop(@, k)]
    /\ pump' = [pump EXCEPT ![c][d].buf = @ \o Take(peer[1][d].inq, k)]
    /\ UNCHANGED <<lvars, st, owner, failure, result, csock, usock, nconnect,
                   dst, ev, config, uaddr,
                   early, tokio2vars, axumvars>>

\* io::copy reads k of the queued bytes into its buffer.
CopyRead(c, d, k) ==
    /\ st[c] = "Relaying"
    /\ pump[c][d].state = "run"
    /\ ~pump[c][d].read_done
    /\ k \in 1..Len(peer[c][d].inq)
    /\ peer' = [peer EXCEPT ![c][d].inq = Drop(@, k)]
    /\ pump' = [pump EXCEPT ![c][d].buf = @ \o Take(peer[c][d].inq, k)]
    /\ UNCHANGED <<lvars, st, owner, failure, result, csock, usock, nconnect,
                   dst, ev, config, uaddr,
                   early, tokio2vars, axumvars>>


\* Variant: a copy that finds nothing to read gives up as on EOF, whether
\* or not the peer closed (an idle timeout).
CopyEofOnIdle(c, d) ==
    /\ st[c] = "Relaying"
    /\ pump[c][d].state = "run"
    /\ ~pump[c][d].read_done
    /\ peer[c][d].inq = <<>>
    /\ Proxy(c, [pump[c] EXCEPT ![d] = Finish([@ EXCEPT !.read_done = TRUE])])
    /\ UNCHANGED <<lvars, owner, nconnect, peer, dst, config, uaddr,
                   early, tokio2vars, axumvars>>

\* io::copy reads 0 bytes: the peer closed its write side and nothing is
\* queued.
CopyEof(c, d) ==
    /\ st[c] = "Relaying"
    /\ pump[c][d].state = "run"
    /\ ~pump[c][d].read_done
    /\ peer[c][d].inq = <<>>
    /\ peer[c][d].fin
    /\ Proxy(c, [pump[c] EXCEPT ![d] = Finish([@ EXCEPT !.read_done = TRUE])])
    /\ UNCHANGED <<lvars, owner, nconnect, peer, dst, config, uaddr,
                   early, tokio2vars, axumvars>>


\* Variant: the copy counts write calls instead of bytes written.
CopyWriteCountsCalls(c, d, k) ==
    /\ st[c] = "Relaying"
    /\ pump[c][d].state = "run"
    /\ k \in 1..Len(pump[c][d].buf)
    /\ dst' = [dst EXCEPT ![c][d] = @ \o Take(pump[c][d].buf, k)]
    /\ Proxy(c, [pump[c] EXCEPT ![d] =
                    Finish([@ EXCEPT !.buf = Drop(@, k), !.amt = @ + 1])])
    /\ UNCHANGED <<lvars, owner, nconnect, peer, config, uaddr,
                   early, tokio2vars, axumvars>>

\* io::copy writes the first k buffered bytes to the destination.
CopyWrite(c, d, k) ==
    /\ st[c] = "Relaying"
    /\ pump[c][d].state = "run"
    /\ k \in 1..Len(pump[c][d].buf)
    /\ dst' = [dst EXCEPT ![c][d] = @ \o Take(pump[c][d].buf, k)]
    /\ Proxy(c, [pump[c] EXCEPT ![d] =
                    Finish([@ EXCEPT !.buf = Drop(@, k), !.amt = @ + k])])
    /\ UNCHANGED <<lvars, owner, nconnect, peer, config, uaddr,
                   early, tokio2vars, axumvars>>

\* A read or a write of io::copy fails (the peer reset the connection).
CopyErr(c, d) ==
    /\ st[c] = "Relaying"
    /\ pump[c][d].state = "run"
    /\ Proxy(c, [pump[c] EXCEPT ![d].state = "err"])
    /\ UNCHANGED <<lvars, owner, nconnect, peer, dst, config, uaddr,
                   early, tokio2vars, axumvars>>

(***************************************************************************)
(* the peers                                                               *)
(***************************************************************************)

RECURSIVE SentUpTo(_)
SentUpTo(n) ==
    IF n = 0 THEN 0
    ELSE SentUpTo(n - 1) + Len(peer[n][C2U].sent) + Len(peer[n][U2C].sent)
TotalSent == SentUpTo(MaxConn)

Sock(c, d) == IF d = C2U THEN csock[c] ELSE usock[c]
NextByte(c, d) ==
    IF d = C2U THEN ClientByte(c, Len(peer[c][d].sent) + 1)
    ELSE UpstreamByte(c, Len(peer[c][d].sent) + 1)

\* The client (d = C2U) or the upstream (d = U2C) of connection c writes its
\* next byte.
PeerSend(c, d) ==
    /\ Sock(c, d) = "open"
    /\ ~peer[c][d].fin
    /\ TotalSent < MaxBytes
    /\ peer' = [peer EXCEPT ![c][d].sent = Append(@, NextByte(c, d)),
                            ![c][d].inq = Append(@, NextByte(c, d))]
    /\ UNCHANGED <<lvars, st, owner, failure, result, csock, usock, nconnect,
                   pump, dst, ev, config, uaddr,
                   early, tokio2vars, axumvars>>

\* The peer closes its write side.
PeerFin(c, d) ==
    /\ Sock(c, d) = "open"
    /\ ~peer[c][d].fin
    /\ peer' = [peer EXCEPT ![c][d].fin = TRUE]
    /\ UNCHANGED <<lvars, st, owner, failure, result, csock, usock, nconnect,
                   pump, dst, ev, config, uaddr,
                   early, tokio2vars, axumvars>>

Next ==
    \/ BindOk
    \/ BindErr
    \/ AcceptOk
    \/ LogAccepted
    \/ Spawn
    \/ AcceptErr
    \/ \E c \in Conn : StartConnect(c)
    \/ \E c \in Conn : ConnectOk(c)
    \/ \E c \in Conn : ConnectErr(c)
    \/ \E c \in Conn, d \in Dir, k \in 1..MaxBytes : CopyRead(c, d, k)
    \/ \E c \in Conn, d \in Dir : CopyEof(c, d)
    \/ \E c \in Conn, d \in Dir, k \in 1..MaxBytes : CopyWrite(c, d, k)
    \/ \E c \in Conn, d \in Dir : CopyErr(c, d)
    \/ \E c \in Conn, d \in Dir : PeerSend(c, d)
    \/ \E c \in Conn, d \in Dir : PeerFin(c, d)

Spec == Init /\ [][Next]_vars


\* What the receiving peer of direction d sees of the relay's write side:
\* proxy never shuts a write half down, so the peer reads EOF only once the
\* relay's socket to it was dropped.
PeerSeesEof(c, d) == (IF d = C2U THEN usock[c] ELSE csock[c]) = "closed"


\* The scheduler of the runtime polls every task that can make progress:
\* main between accept and spawn, the first poll of a spawned task, and the
\* reads and writes of a copy whose socket is ready.  No fairness is assumed
\* of the peers, of the outcome of a connect or of errors.
Fairness ==
    /\ WF_vars(LogAccepted)
    /\ WF_vars(Spawn)
    /\ \A c \in Conn :
        /\ WF_vars(StartConnect(c))
        /\ \A d \in Dir :
            /\ WF_vars(\E k \in 1..MaxBytes : CopyRead(c, d, k))
            /\ WF_vars(CopyEof(c, d))
            /\ WF_vars(\E k \in 1..MaxBytes : CopyWrite(c, d, k))

SpecLive == Init /\ [][Next]_vars /\ Fairness


(***************************************************************************)
(* tokio2.rs: producer task, worker thread, blocking-task threads          *)
(***************************************************************************)

\* i += 1; println!("sending task {}", i)
ProducerNext ==
    /\ prod_pc = "loop"
    /\ prod_i < MaxTasks
    /\ prod_i' = prod_i + 1
    /\ prod_pc' = "send"
    /\ UNCHANGED <<chan, wk_pc, wk_s, threads, retchan, wk_result, stdout,
                   minginxvars, axumvars>>

\* Variant: an unbounded channel, a send never waits.
ProducerSendUnbounded ==
    /\ prod_pc = "send"
    /\ chan' = Append(chan, Task(prod_i))
    /\ prod_pc' = "loop"
    /\ UNCHANGED <<prod_i, wk_pc, wk_s, threads, retchan, wk_result, stdout,
                   minginxvars, axumvars>>

\* tx.send(format!("task {i}")).await completes: the channel had a free slot.
ProducerSend ==
    /\ prod_pc = "send"
    /\ Len(chan) < ChannelCapacity
    /\ chan' = Append(chan, Task(prod_i))
    /\ prod_pc' = "loop"
    /\ UNCHANGED <<prod_i, wk_pc, wk_s, threads, retchan, wk_result, stdout,
                   minginxvars, axumvars>>

\* Variant: the worker takes the next message without waiting for the
\* result of the one before.
WorkerRecvPipelined ==
    /\ wk_pc \in {"recv", "wait"}
    /\ chan # <<>>
    /\ wk_s' = Head(chan)
    /\ chan' = Tail(chan)
    /\ wk_pc' = "spawn"
    /\ UNCHANGED <<prod_i, prod_pc, threads, retchan, wk_result, stdout,
                   minginxvars, axumvars>>

\* while let Some(s) = rx.blocking_recv()
WorkerRecv ==
    /\ wk_pc = "recv"
    /\ chan # <<>>
    /\ wk_s' = Head(chan)
    /\ chan' = Tail(chan)
    /\ wk_pc' = "spawn"
    /\ UNCHANGED <<prod_i, prod_pc, threads, retchan, wk_result, stdout,
                   minginxvars, axumvars>>

\* thread::spawn(move || { .. }): s moves into a new thread.
WorkerSpawn ==
    /\ wk_pc = "spawn"
    /\ threads' = threads \cup {wk_s}
    /\ wk_pc' = "wait"
    /\ UNCHANGED <<prod_i, prod_pc, chan, wk_s, retchan, wk_result, stdout,
                   minginxvars, axumvars>>

\* The thread of message m: let ret = expensive_blocking_task(s);
\* sender_clone.send(ret).unwrap()
BlockingTask(m) ==
    /\ m \in threads
    /\ retchan' = Append(retchan, expensive_blocking_task(m))
    /\ threads' = threads \ {m}
    /\ UNCHANGED <<prod_i, prod_pc, chan, wk_pc, wk_s, wk_result, stdout,
                   minginxvars, axumvars>>

\* let result = receiver.recv().unwrap()
WorkerRecvResult ==
    /\ wk_pc = "wait"
    /\ retchan # <<>>
    /\ wk_result' = Head(retchan)
    /\ retchan' = Tail(retchan)
    /\ wk_pc' = "print"
    /\ UNCHANGED <<prod_i, prod_pc, chan, wk_s, threads, stdout,
                   minginxvars, axumvars>>

\* println!("result: {}", result)
WorkerPrint ==
    /\ wk_pc = "print"
    /\ stdout' = Append(stdout, wk_result)
    /\ wk_pc' = "recv"
    /\ UNCHANGED <<prod_i, prod_pc, chan, wk_s, threads, retchan, wk_result,
                   minginxvars, axumvars>>

NextTokio2 ==
    \/ ProducerNext
    \/ ProducerSend
    \/ WorkerRecv
    \/ WorkerSpawn
    \/ \E n \in 1..MaxTasks : BlockingTask(Task(n))
    \/ WorkerRecvResult
    \/ WorkerPrint

SpecTokio2 == Init /\ [][NextTokio2]_vars


(***************************************************************************)
(* axum_serde.rs: user_handler (GET /) and update_handler (PATCH /)        *)
(***************************************************************************)

\* Request r arrives, a GET or a PATCH with body u, and its handler is called.
Request(r, m, u) ==
    /\ hpc[r] = "idle"
    /\ hreq' = [hreq EXCEPT ![r] = [method |-> m, body |-> u]]
    /\ hpc' = [hpc EXCEPT ![r] = "lock"]
    /\ UNCHANGED <<user, mutex, hsnap, resp, committed, minginxvars, tokio2vars>>

\* user_handler: let user = user.lock().unwrap().clone(); Json(user).  The
\* guard is a temporary of that statement: lock, clone and unlock.
user_handler(r) ==
    /\ hpc[r] = "lock"
    /\ hreq[r].method = "GET"
    /\ mutex = 0
    /\ hsnap' = [hsnap EXCEPT ![r] = user]
    /\ resp' = [resp EXCEPT ![r] = Some(user)]
    /\ hpc' = [hpc EXCEPT ![r] = "done"]
    /\ UNCHANGED <<user, mutex, hreq, committed, minginxvars, tokio2vars>>

\* update_handler: let mut user = user.lock().unwrap()
update_lock(r) ==
    /\ hpc[r] = "lock"
    /\ hreq[r].method = "PATCH"
    /\ mutex = 0
    /\ mutex' = r
    /\ hsnap' = [hsnap EXCEPT ![r] = user]
    /\ hpc' = [hpc EXCEPT ![r] = "age"]
    /\ UNCHANGED <<user, hreq, resp, committed, minginxvars, tokio2vars>>

\* Variant: each field is written under a lock hold of its own; the lock is
\* released after the age.
update_age_releases(r) ==
    /\ hpc[r] = "age"
    /\ user' = IF hreq[r].body.age # None
               THEN [user EXCEPT !.age = hreq[r].body.age[1]]
               ELSE user
    /\ mutex' = 0
    /\ hpc' = [hpc EXCEPT ![r] = "skills"]
    /\ UNCHANGED <<hreq, hsnap, resp, committed, minginxvars, tokio2vars>>

\* if let Some(age) = user_update.age { user.age = age; }
update_age(r) ==
    /\ hpc[r] = "age"
    /\ user' = IF hreq[r].body.age # None
               THEN [user EXCEPT !.age = hreq[r].body.age[1]]
               ELSE user
    /\ hpc' = [hpc EXCEPT ![r] = "skills"]
    /\ UNCHANGED <<mutex, hreq, hsnap, resp, committed, minginxvars, tokio2vars>>

\* if let Some(skills) = user_update.skills { user.skills = skills; }
update_skills(r) ==
    /\ hpc[r] = "skills"
    /\ user' = IF hreq[r].body.skills # None
               THEN [user EXCEPT !.skills = hreq[r].body.skills[1]]
               ELSE user
    /\ hpc' = [hpc EXCEPT ![r] = "clone"]
    /\ UNCHANGED <<mutex, hreq, hsnap, resp, committed, minginxvars, tokio2vars>>

\* Json(user.clone()), and the guard is dropped as update_handler returns.
update_respond(r) ==
    /\ hpc[r] = "clone"
    /\ resp' = [resp EXCEPT ![r] = Some(user)]
    /\ mutex' = 0
    /\ committed' = committed \cup {user}
    /\ hpc' = [hpc EXCEPT ![r] = "done"]
    /\ UNCHANGED <<user, hreq, hsnap, minginxvars, tokio2vars>>

NextAxum ==
    \/ \E r \in Req : Request(r, "GET", NoRequest.body)
    \/ \E r \in Req, u \in UserUpdate : Request(r, "PATCH", u)
    \/ \E r \in Req : user_handler(r)
    \/ \E r \in Req : update_lock(r)
    \/ \E r \in Req : update_age(r)
    \/ \E r \in Req : update_skills(r)
    \/ \E r \in Req : update_respond(r)

SpecAxum == Init /\ [][NextAxum]_vars

(***************************************************************************)
(* Properties                                                              *)
(***************************************************************************)

PumpErrored(c) == \E d \in Dir : pump[c][d].state = "err"
LastEvent(c) == ev[c][Len(ev[c])]

C2_Original ==
    \A c \in Conn :
        (st[c] = "Failed" /\ failure[c] = "PumpError")
        => \A d \in Dir : pump[c][d].state \in {"done", "err"}

\* C2 amended: as soon as one copy direction fails the unit is Failed with
\* an error record as its last record; exactly one direction failed and the
\* other one either had finished before or was dropped, never left running.
C2_ErrorCancelsOtherDirection ==
    \A c \in Conn :
        PumpErrored(c) =>
            /\ st[c] = "Failed"
            /\ failure[c] = "PumpError"
            /\ LastEvent(c).kind = "error"
            /\ \E d \in Dir :
                /\ pump[c][d].state = "err"
                /\ pump[c][Other(d)].state \in {"done", "dropped"}

\* One direction failed while the other still held a byte it had read: the
\* other direction was dropped with that byte undelivered.
C2_Witness ==
    \E c \in Conn, d \in Dir :
        /\ pump[c][d].state = "err"
        /\ pump[c][Other(d)].state = "dropped"
        /\ pump[c][Other(d)].buf # <<>>

\* C3: once the client has closed its write side and the client -> upstream
\* copy has ended on that EOF, the upstream -> client copy keeps running
\* until the upstream closes too, and no upstream byte is lost or reordered:
\* what was written to the client, what the copy buffers and what is queued
\* make up exactly what the upstream sent; at completion all of it has been
\* written to the client.
C3_HalfClose ==
    \A c \in Conn :
        (/\ peer[c][C2U].fin
         /\ pump[c][C2U].state = "done"
         /\ st[c] \in {"Relaying", "Completed"})
        => /\ st[c] = "Relaying" => pump[c][U2C].state = "run"
           /\ dst[c][U2C] \o pump[c][U2C].buf \o peer[c][U2C].inq = peer[c][U2C].sent
           /\ st[c] = "Completed" => dst[c][U2C] = peer[c][U2C].sent

\* The client sent a byte and half-closed, the relay saw the EOF, and an
\* upstream byte is still on its way to the client.
C3_Witness ==
    \E c \in Conn :
        /\ Len(peer[c][C2U].sent) >= 1
        /\ pump[c][C2U].state = "done"
        /\ st[c] = "Relaying"
        /\ peer[c][U2C].inq # <<>>

\* C4: when a relay completes without error, the upstream has received
\* exactly the bytes the client sent, in order, and the client exactly the
\* bytes the upstream sent.
C4_ByteFidelity ==
    \A c \in Conn :
        st[c] = "Completed" => \A d \in Dir : dst[c][d] = peer[c][d].sent

\* A relay completed after forwarding two bytes.
C4_Witness ==
    \E c \in Conn :
        /\ st[c] = "Completed"
        /\ Len(dst[c][C2U]) + Len(dst[c][U2C]) = 2

ConnState(c) ==
    <<st[c], owner[c], failure[c], result[c], csock[c], usock[c], nconnect[c],
      peer[c], pump[c], dst[c], ev[c]>>

\* C5: a step in which connection a fails leaves main where it is and
\* leaves the state and the data of every other connection unchanged.
C5_Isolation ==
    [][\A a \in Conn :
          (st[a] # "Failed" /\ st'[a] = "Failed")
          => /\ lvars' = lvars
             /\ \A b \in Conn \ {a} : ConnState(b)' = ConnState(b)]_vars

\* Connection 1 failed and connection 2, accepted by the same listener,
\* completed with data relayed.
C5_Witness ==
    /\ st[1] = "Failed"
    /\ st[2] = "Completed"
    /\ dst[2][C2U] # <<>>

\* C6: the step in which the upstream connect fails ends that unit in
\* Failed(UpstreamUnreachable) with its client socket closed and leaves main
\* untouched; such a unit never has an upstream socket or a started copy.
C6_UpstreamUnreachable ==
    /\ [][\A c \in Conn :
             (st[c] = "ConnectingUpstream" /\ st'[c] = "Failed")
             => /\ failure'[c] = "UpstreamUnreachable"
                /\ csock'[c] = "closed"
                /\ lvars' = lvars]_vars
    /\ [](\A c \in Conn :
             failure[c] = "UpstreamUnreachable"
             => /\ st[c] = "Failed"
                /\ csock[c] = "closed"
                /\ usock[c] = "none"
                /\ \A d \in Dir : pump[c][d].state = "idle" /\ dst[c][d] = <<>>)

\* The upstream connect failed for a client that had already sent a byte.
C6_Witness ==
    \E c \in Conn :
        /\ failure[c] = "UpstreamUnreachable"
        /\ peer[c][C2U].sent # <<>>

\* C7 as stated: a unit that failed with UpstreamUnreachable has emitted a
\* record of that failure.
C7_Original ==
    \A c \in Conn :
        failure[c] = "UpstreamUnreachable"
        => \E i \in 1..Len(ev[c]) : ev[c][i].kind = "error"

\* C8: an accept error makes main return, and once main has returned no
\* connection is accepted any more.
C8_AcceptErrorIsFatal ==
    [][/\ lerr' = "AcceptError" => lpc' = "exit"
       /\ lpc = "exit" => (lpc' = "exit" /\ nacc' = nacc /\ cur' = cur)]_vars

\* main returned on an accept error after it had accepted some, but not
\* all, of the connections.
C8_Witness ==
    /\ lerr = "AcceptError"
    /\ nacc >= 1
    /\ nacc < MaxConn

\* C9: whenever main is at accept and a connection is waiting, it can
\* accept it, whatever the state of the units spawned before.
C9_AcceptNotBlocked ==
    (lpc = "accept" /\ nacc < MaxConn) => ENABLED AcceptOk

\* main has accepted connection 2 while the unit of connection 1 is still
\* connecting or relaying.
C9_Witness ==
    /\ cur = 2
    /\ st[1] \in {"ConnectingUpstream", "Relaying"}

\* C10: a unit in a terminal state has its client socket closed and no open
\* upstream socket.
C10_Teardown ==
    \A c \in Conn :
        st[c] \in Terminal => csock[c] = "closed" /\ usock[c] # "open"

\* One unit failed on a copy error and another was cancelled while it was
\* relaying.
C10_Witness ==
    \E a, b \in Conn :
        /\ st[a] = "Failed" /\ failure[a] = "PumpError" /\ usock[a] = "closed"
        /\ st[b] = "Cancelled" /\ usock[b] = "closed"

\* C11 as stated: a unit one of whose copy directions failed with an I/O
\* error returns an error result to its caller.
C11_Original ==
    \A c \in Conn : PumpErrored(c) => result[c] = "Err"

\* C12: the byte counts of a success record equal the number of bytes
\* written to the upstream and to the client of that connection.
C12_Counters ==
    \A c \in Conn :
        st[c] = "Completed"
        => /\ LastEvent(c).kind = "proxied"
           /\ LastEvent(c).n = Len(dst[c][C2U])
           /\ LastEvent(c).m = Len(dst[c][U2C])

\* A relay completed after writing two bytes to the upstream, and none to
\* the client.
C12_Witness ==
    \E c \in Conn :
        /\ st[c] = "Completed"
        /\ Len(dst[c][C2U]) = 2
        /\ dst[c][U2C] = <<>>

Bytes(s) == {s[i] : i \in 1..Len(s)}

\* C13: every byte written to the upstream of a connection was sent by the
\* client of that connection, and every byte written to its client was sent
\* by its upstream.
C13_NoCrossTalk ==
    \A c \in Conn, d \in Dir : Bytes(dst[c][d]) \subseteq Bytes(peer[c][d].sent)

\* Two connections are relaying at the same time and a byte was forwarded
\* on each.
C13_Witness ==
    \E a, b \in Conn :
        /\ a # b
        /\ st[a] = "Relaying" /\ st[b] = "Relaying"
        /\ \E d \in Dir : dst[a][d] # <<>>
        /\ \E d \in Dir : dst[b][d] # <<>>

\* C14 as stated: once a copy direction has ended on its source's EOF, the
\* write side towards its destination is closed, so the destination peer
\* reads EOF.
C14_Original ==
    \A c \in Conn, d \in Dir : pump[c][d].state = "done" => PeerSeesEof(c, d)

\* C15: when the bind fails main has returned with the bind error, no
\* connection was accepted and no unit exists.
C15_BindErrorBeforeAccept ==
    lerr = "BindError"
    => /\ lpc = "exit"
       /\ nacc = 0
       /\ cur = 0
       /\ \A c \in Conn : st[c] = "None" /\ owner[c] = "none" /\ csock[c] = "none"

\* The bind failed.
C15_Witness ==
    lerr = "BindError" /\ lpc = "exit"

\* C16: after a successful bind main is at accept or on its way back to it
\* (logging, spawning) unless an accept error occurred, whatever became of
\* the units.
C16_LoopNeverReturns ==
    (lpc # "bind" /\ lerr \notin {"BindError", "AcceptError"})
    => lpc \in {"accept", "log", "spawn"}

\* main waits in accept after every unit it spawned has ended, one of them
\* completed and one failed.
C16_Witness ==
    /\ lpc = "accept"
    /\ lerr = "none"
    /\ \E a, b \in Conn : st[a] = "Completed" /\ st[b] = "Failed"

Count(c, kind) == Cardinality({i \in 1..Len(ev[c]) : ev[c][i].kind = kind})

\* C17: a connection never has more than one accepted record; once it is
\* dispatched to its unit (so before any connect attempt) it has exactly
\* one, which is its first record and carries the client address.
C17_AcceptedEventBeforeDispatch ==
    \A c \in Conn :
        /\ Count(c, "accepted") <= 1
        /\ st[c] = "None" => ev[c] = <<>>
        /\ (owner[c] = "unit" \/ nconnect[c] > 0)
           => /\ Count(c, "accepted") = 1
              /\ ev[c][1] = Event("accepted", c, 0, 0)

\* A connection was dispatched and its unit has not started to connect.
C17_Witness ==
    \E c \in Conn :
        /\ owner[c] = "unit"
        /\ st[c] = "Accepted"
        /\ nconnect[c] = 0

\* The transitions of the state machine of section 4.2.
StepAllowed(c) ==
    \/ st'[c] = st[c]
    \/ st[c] = "None" /\ st'[c] = "Accepted"
    \/ st[c] = "Accepted" /\ st'[c] = "ConnectingUpstream"
    \/ st[c] = "ConnectingUpstream" /\ st'[c] = "Relaying"
    \/ /\ st[c] = "ConnectingUpstream"
       /\ st'[c] = "Failed"
       /\ failure'[c] = "UpstreamUnreachable"
    \/ st[c] = "Relaying" /\ st'[c] = "Completed"
    \/ st[c] = "Relaying" /\ st'[c] = "Failed" /\ failure'[c] = "PumpError"

\* A unit that has not ended is cancelled in the step in which main returns
\* on an accept error.
StepCancelled(c) ==
    /\ st[c] \in {"Accepted", "ConnectingUpstream", "Relaying"}
    /\ st'[c] = "Cancelled"
    /\ lpc = "accept"
    /\ lerr' = "AcceptError"

\* C18 as stated: a connection only takes the transitions of the state
\* machine, never leaves a terminal state and makes at most one connect
\* attempt.
C18_Original ==
    [][\A c \in Conn : StepAllowed(c) /\ nconnect'[c] <= 1]_vars

\* C18 amended: a connection only takes the transitions of the state
\* machine or, from a state that is not terminal, is cancelled when main
\* returns on an accept error; it never leaves Completed, Failed or
\* Cancelled and makes at most one connect attempt.
C18_StateMachine ==
    [][\A c \in Conn :
          /\ StepAllowed(c) \/ StepCancelled(c)
          /\ nconnect'[c] <= 1]_vars

\* One unit failed at the connect and another, which had made its connect
\* attempt, was cancelled.
C18_Witness ==
    \E a, b \in Conn :
        /\ st[a] = "Failed" /\ failure[a] = "UpstreamUnreachable"
        /\ st[b] = "Cancelled" /\ nconnect[b] = 1

\* Connection c's sockets were read or written in this step.
SocketIO(c) ==
    \/ dst'[c] # dst[c]
    \/ \E d \in Dir : Len(peer'[c][d].inq) < Len(peer[c][d].inq)

\* C19: main holds a connection only until it dispatched it, a connection
\* is held by main or by its one unit, and every step that reads or writes
\* the sockets of a connection is a step of that connection's relaying unit:
\* it leaves main and the sockets of all other connections alone.
C19_Ownership ==
    /\ [](\A c \in Conn :
             /\ cur = c => owner[c] = "listener"
             /\ owner[c] = "unit" => cur # c
             /\ owner[c] = "none" => csock[c] = "none" /\ usock[c] = "none"
             /\ usock[c] # "none" => owner[c] = "unit")
    /\ [][\A c \in Conn :
             SocketIO(c)
             => /\ owner[c] = "unit"
                /\ st[c] = "Relaying"
                /\ lvars' = lvars
                /\ \A b \in Conn \ {c} : ~SocketIO(b)]_vars

\* A unit has forwarded a byte of its connection while main holds the next
\* connection, not yet dispatched.
C19_Witness ==
    \E a, b \in Conn :
        /\ owner[a] = "unit"
        /\ \E d \in Dir : dst[a][d] # <<>>
        /\ owner[b] = "listener"
        /\ cur = b

\* C20: a connection never has both a success record and an error record;
\* if a copy direction failed it has one error record and no success
\* record; a success record is there only when both directions ended on a
\* clean EOF.
C20_RecordsExclusive ==
    \A c \in Conn :
        /\ ~(Count(c, "proxied") >= 1 /\ Count(c, "error") >= 1)
        /\ PumpErrored(c) => Count(c, "error") = 1 /\ Count(c, "proxied") = 0
        /\ Count(c, "proxied") >= 1
           => \A d \in Dir : pump[c][d].state = "done" /\ pump[c][d].read_done

\* One direction ended on a clean EOF and the other failed afterwards.
C20_Witness ==
    \E c \in Conn, d \in Dir :
        /\ pump[c][d].state = "err"
        /\ pump[c][Other(d)].state = "done"

Records(c) == Count(c, "proxied") + Count(c, "error")

\* C21 as stated: every unit that ended in Completed or Failed, the units
\* that failed at the upstream connect included, has produced exactly one
\* result record.
C21_Original ==
    \A c \in Conn : st[c] \in {"Completed", "Failed"} => Records(c) = 1

\* The bytes the copy of direction d has read from its socket so far.
ReadSoFar(c, d) ==
    Take(peer[c][d].sent, Len(peer[c][d].sent) - Len(peer[c][d].inq))

\* C22: every byte written to a destination is one the copy has read from
\* the source socket of the same connection, and never more bytes are
\* written than were read; a unit that failed at the upstream connect has
\* written nothing.
C22_NoInjection ==
    \A c \in Conn :
        /\ \A d \in Dir :
            /\ Bytes(dst[c][d]) \subseteq Bytes(ReadSoFar(c, d))
            /\ Len(dst[c][d]) <= Len(ReadSoFar(c, d))
        /\ failure[c] = "UpstreamUnreachable"
           => dst[c][C2U] = <<>> /\ dst[c][U2C] = <<>>

\* One unit failed at the connect although its client had sent a byte, and
\* another failed on a copy error after it had written a byte.
C22_Witness ==
    \E a, b \in Conn :
        /\ failure[a] = "UpstreamUnreachable" /\ peer[a][C2U].sent # <<>>
        /\ failure[b] = "PumpError" /\ \E d \in Dir : dst[b][d] # <<>>

\* C23: while a unit relays, a running copy that holds bytes can write, and
\* one with bytes queued at its socket can read, whatever the state of the
\* copy of the other direction.
C23_DirectionsConcurrent ==
    \A c \in Conn, d \in Dir :
        (st[c] = "Relaying" /\ pump[c][d].state = "run")
        => /\ pump[c][d].buf # <<>> => ENABLED CopyWrite(c, d, 1)
           /\ (peer[c][d].inq # <<>> /\ ~pump[c][d].read_done)
              => ENABLED CopyRead(c, d, 1)

\* Both directions of one unit hold a byte they have read and not yet
\* written.
C23_Witness ==
    \E c \in Conn :
        /\ st[c] = "Relaying"
        /\ pump[c][C2U].buf # <<>>
        /\ pump[c][U2C].buf # <<>>

\* C24: in every state what has been written to a destination is a prefix
\* of what the sending peer has sent on that connection.
C24_Prefix ==
    \A c \in Conn, d \in Dir :
        /\ Len(dst[c][d]) <= Len(peer[c][d].sent)
        /\ dst[c][d] = Take(peer[c][d].sent, Len(dst[c][d]))

\* A unit ended on an error or a cancellation with the first of two bytes
\* written and the second not.
C24_Witness ==
    \E c \in Conn, d \in Dir :
        /\ st[c] \in {"Failed", "Cancelled"}
        /\ Len(peer[c][d].sent) = 2
        /\ Len(dst[c][d]) = 1

\* The upstream of connection c is willing to finish: once it reads EOF
\* from the relay it closes its write side.
UpstreamClosesOnEof(c) ==
    [](PeerSeesEof(c, C2U) => <>peer[c][U2C].fin)

\* C25 as stated: under fair scheduling, once the client of a relaying unit
\* has closed its write side and the upstream is willing to close its own as
\* soon as it reads EOF, the unit eventually reaches a terminal state.
C25_Original ==
    \A c \in Conn :
        UpstreamClosesOnEof(c)
        => ((st[c] = "Relaying" /\ peer[c][C2U].fin) ~> st[c] \in Terminal)

\* A copy of connection c ends in this step on its source's EOF or on an
\* I/O error.
PeerEvent(c) ==
    \E d \in Dir :
        pump[c][d].state = "run" /\ pump'[c][d].state \in {"done", "err"}

\* Both peers of the relaying connection c are silent and keep their
\* connections open: nothing is queued or buffered and neither has closed.
Silent(c) ==
    /\ st[c] = "Relaying"
    /\ \A d \in Dir :
        /\ peer[c][d].inq = <<>>
        /\ ~peer[c][d].fin
        /\ pump[c][d].buf = <<>>

\* A read, an EOF or a write of one of the copies of connection c.
CopyStep(c) ==
    \E d \in Dir :
        \/ CopyEof(c, d)
        \/ \E k \in 1..MaxBytes : CopyRead(c, d, k) \/ CopyWrite(c, d, k)

\* While both peers are silent the unit has no step to take and holds both
\* sockets open.
StaysOpenWhileSilent ==
    \A c \in Conn :
        Silent(c)
        => /\ ~ENABLED CopyStep(c)
           /\ csock[c] = "open"
           /\ usock[c] = "open"

\* C26 as stated: a unit leaves Relaying only in a step in which one of its
\* copies ends on EOF or on an I/O error, and while both peers are silent it
\* stays as it is with both sockets open.
C26_Original ==
    /\ [][\A c \in Conn :
             (st[c] = "Relaying" /\ st'[c] # "Relaying") => PeerEvent(c)]_vars
    /\ []StaysOpenWhileSilent

\* C26 amended: a unit leaves Relaying only in a step in which one of its
\* copies ends on EOF or on an I/O error, or in the step in which main
\* returns on an accept error; while both peers are silent it stays as it
\* is with both sockets open.
C26_NoIdleTimeout ==
    /\ [][\A c \in Conn :
             (st[c] = "Relaying" /\ st'[c] # "Relaying")
             => PeerEvent(c) \/ StepCancelled(c)]_vars
    /\ []StaysOpenWhileSilent

\* A unit has forwarded a byte and both its peers have gone silent with
\* their connections open.
C26_Witness ==
    \E c \in Conn : Silent(c) /\ dst[c][C2U] # <<>>

\* C27: once main has returned on an accept error no unit is connecting or
\* relaying, no socket is open and no copy runs; after main has returned no
\* byte is forwarded and no unit changes state.
C27_AcceptErrorKillsUnits ==
    /\ [](lerr = "AcceptError"
          => \A c \in Conn :
                /\ st[c] \in Terminal \cup {"None"}
                /\ csock[c] # "open"
                /\ usock[c] # "open"
                /\ \A d \in Dir : pump[c][d].state # "run")
    /\ [][lpc = "exit" => (dst' = dst /\ st' = st)]_vars

\* main returned on an accept error while one unit was connecting and
\* another was relaying with a byte read and not yet written.
C27_Witness ==
    /\ lerr = "AcceptError"
    /\ \E a, b \in Conn :
        /\ st[a] = "Cancelled" /\ nconnect[a] = 1 /\ usock[a] = "none"
        /\ st[b] = "Cancelled" /\ \E d \in Dir : pump[b][d].buf # <<>>

\* Unit a waits: on its pending connect, or on peers that give it nothing
\* to do.
Suspended(a) ==
    \/ st[a] = "ConnectingUpstream"
    \/ st[a] = "Relaying" /\ ~ENABLED CopyStep(a)

\* While a unit is suspended main can take its next step and every other
\* unit that has something to do can do it: start its connect, read what is
\* queued, see the EOF of a peer that closed, write what it holds.
NobodyBlocked ==
    \A a \in Conn :
        Suspended(a)
        => /\ (lpc = "accept" /\ nacc < MaxConn) => ENABLED AcceptOk
           /\ lpc = "log" => ENABLED LogAccepted
           /\ lpc = "spawn" => ENABLED Spawn
           /\ \A b \in Conn \ {a} :
                /\ (st[b] = "Accepted" /\ owner[b] = "unit")
                   => ENABLED StartConnect(b)
                /\ \A d \in Dir :
                    (st[b] = "Relaying" /\ pump[b][d].state = "run")
                    => /\ pump[b][d].buf # <<>> => ENABLED CopyWrite(b, d, 1)
                       /\ (peer[b][d].inq # <<>> /\ ~pump[b][d].read_done)
                          => ENABLED CopyRead(b, d, 1)
                       /\ (/\ peer[b][d].inq = <<>>
                           /\ peer[b][d].fin
                           /\ ~pump[b][d].read_done)
                          => ENABLED CopyEof(b, d)

\* C28: a suspended unit never keeps main from its next step nor another
\* unit from its own, and a relaying unit whose two peers have both closed
\* their write sides ends, whatever the other units are waiting for.
C28_SuspendedUnitBlocksNobody ==
    /\ []NobodyBlocked
    /\ \A b \in Conn :
          (st[b] = "Relaying" /\ peer[b][C2U].fin /\ peer[b][U2C].fin)
          ~> st[b] \in Terminal

\* The first unit still waits for its connect while the second, accepted
\* later, has completed with a byte relayed.
C28_Witness ==
    /\ st[1] = "ConnectingUpstream"
    /\ st[2] = "Completed"
    /\ \E d \in Dir : dst[2][d] # <<>>

\* C29: no step changes the Config, which is the one resolve_config built,
\* and every connect was issued to its upstream address.
C29_ConfigImmutable ==
    /\ [][config' = config]_vars
    /\ [](/\ config = resolve_config
          /\ \A c \in Conn :
                /\ nconnect[c] > 0 => uaddr[c] = resolve_config.upstream_addr
                /\ nconnect[c] = 0 => uaddr[c] = "none")

\* A unit issues its connect after an earlier unit has already ended.
C29_Witness ==
    \E a, b \in Conn :
        /\ st[a] \in Terminal /\ uaddr[a] # "none"
        /\ st[b] = "ConnectingUpstream" /\ uaddr[b] # "none"

\* C30 as stated: no connection has more than one connect attempt, every
\* upstream socket comes from the attempt of its own connection, and every
\* dispatched connection whose unit is past Accepted has made its attempt.
C30_Original ==
    \A c \in Conn :
        /\ nconnect[c] <= 1
        /\ usock[c] # "none" => nconnect[c] = 1
        /\ (owner[c] = "unit" /\ st[c] # "Accepted") => nconnect[c] = 1

\* C30 amended: no connection has more than one connect attempt, every
\* upstream socket comes from the attempt of its own connection, and a
\* dispatched connection has made its attempt exactly when its unit has run:
\* a unit that connects, relays, has completed or has failed has made one,
\* one not yet started has made none, and a cancelled one at most one.
C30_OneUpstreamPerUnit ==
    \A c \in Conn :
        /\ nconnect[c] <= 1
        /\ usock[c] # "none" => nconnect[c] = 1
        /\ nconnect[c] = 1 => owner[c] = "unit"
        /\ st[c] \in {"ConnectingUpstream", "Relaying", "Completed", "Failed"}
           => nconnect[c] = 1
        /\ st[c] \in {"None", "Accepted"} => nconnect[c] = 0

\* One unit was cancelled before its first poll, without a connect attempt,
\* and another had connected.
C30_Witness ==
    \E a, b \in Conn :
        /\ st[a] = "Cancelled" /\ owner[a] = "unit" /\ nconnect[a] = 0
        /\ nconnect[b] = 1 /\ usock[b] = "closed"

\* The connections dispatched to a unit, and those whose unit is active.
Units == {c \in Conn : owner[c] = "unit"}
ActiveUnits == {c \in Conn : Live(c)}

\* C31: however many units are active, main at accept can accept the next
\* connection and main at spawn can spawn; every accepted connection other
\* than the one main holds has a unit of its own, and the spawn step gives
\* the held connection a new unit that has not started.
C31_NoCeiling ==
    /\ [](/\ (lpc = "accept" /\ nacc < MaxConn) => ENABLED AcceptOk
          /\ lpc = "spawn" => ENABLED Spawn
          /\ Cardinality(Units) = nacc - (IF cur = 0 THEN 0 ELSE 1)
          /\ Units = {c \in Conn : c <= nacc /\ c # cur})
    /\ [][(lpc = "spawn" /\ lpc' # "spawn")
          => /\ owner[cur] = "listener"
             /\ owner'[cur] = "unit"
             /\ st'[cur] = "Accepted"
             /\ nconnect'[cur] = 0
             /\ ActiveUnits' = ActiveUnits \cup {cur}]_vars

\* Every connection that arrived has been accepted and dispatched, and all
\* the units relay at the same time.
C31_Witness ==
    /\ lpc = "accept"
    /\ nacc = MaxConn
    /\ \A c \in Conn : st[c] = "Relaying"

\* C32 as stated: the joined copies finish as soon as the first of the two
\* returned, with Ok or with an error: no unit is still relaying once one of
\* its copies has completed or failed.
C32_Original ==
    \A c \in Conn :
        (\E d \in Dir : pump[c][d].state \in {"done", "err"})
        => st[c] # "Relaying"

\* C33: per connection, the connect attempt is made with the accepted record
\* already written; a byte is forwarded only on an upstream connection that
\* was established, and before any outcome record; the outcome record is
\* written while both sockets are still open, a relaying unit that is not
\* cancelled closes its sockets only with that record written, it is the
\* last record, and once it is written nothing more is forwarded.
C33_EventOrder ==
    /\ [][\A c \in Conn :
            /\ nconnect'[c] > nconnect[c]
               => (ev[c] # <<>> /\ ev[c][1].kind = "accepted")
            /\ dst'[c] # dst[c]
               => (usock[c] = "open" /\ nconnect[c] = 1 /\ Records(c) = 0)
            /\ Records(c)' > Records(c)
               => (csock[c] = "open" /\ usock[c] = "open")
            /\ (st[c] = "Relaying" /\ csock'[c] = "closed" /\ lpc' # "exit")
               => Records(c)' = 1
            /\ Records(c) > 0 => dst'[c] = dst[c]]_vars
    /\ [](\A c \in Conn :
            /\ (\E d \in Dir : dst[c][d] # <<>>) => usock[c] # "none"
            /\ Records(c) > 0 => LastEvent(c).kind \in {"proxied", "error"})

\* A connection went through all of it: accepted, connected, a byte
\* forwarded in each direction, the outcome recorded and the sockets closed.
C33_Witness ==
    \E c \in Conn :
        /\ Len(ev[c]) = 2
        /\ ev[c][1].kind = "accepted"
        /\ ev[c][2].kind = "proxied"
        /\ \A d \in Dir : dst[c][d] # <<>>
        /\ csock[c] = "closed"

IsPrefix(a, b) == Len(a) <= Len(b) /\ SubSeq(b, 1, Len(a)) = a

\* C34: until the upstream connection is established everything the client
\* sent stays queued at its socket; from then on what was written to the
\* upstream, what the copy holds and what is queued make up what the client
\* sent, in order, so the bytes sent before the connect succeeded come
\* first; at completion the upstream has received them ahead of the rest.
C34_EarlyBytesKept ==
    \A c \in Conn :
        /\ st[c] \in {"Accepted", "ConnectingUpstream"}
           => /\ peer[c][C2U].inq = peer[c][C2U].sent
              /\ dst[c][C2U] = <<>>
        /\ st[c] \in {"Relaying", "Completed"}
           => /\ dst[c][C2U] \o pump[c][C2U].buf \o peer[c][C2U].inq
                 = peer[c][C2U].sent
              /\ IsPrefix(early[c], peer[c][C2U].sent)
        /\ st[c] = "Completed"
           => /\ IsPrefix(early[c], dst[c][C2U])
              /\ dst[c][C2U] = peer[c][C2U].sent

\* The client sent a byte before the upstream connection was established
\* and one after; both have reached the upstream.
C34_Witness ==
    \E c \in Conn :
        /\ Len(early[c]) = 1
        /\ Len(dst[c][C2U]) = 2

\* C35: never more than 32 messages are queued in the channel; a message is
\* added only when fewer than 32 are queued; a send issued while 32 are
\* queued cannot complete, and no step taken while 32 are queued completes
\* it or moves the producer on: only the worker's receive makes room.
C35_ChannelBounded ==
    /\ [](/\ Len(chan) <= ChannelCapacity
          /\ (prod_pc = "send" /\ Len(chan) = ChannelCapacity)
             => ~ENABLED ProducerSend)
    /\ [][/\ Len(chan') > Len(chan) => Len(chan) < ChannelCapacity
          /\ (prod_pc = "send" /\ Len(chan) = ChannelCapacity)
             => (prod_pc' = "send" /\ prod_i' = prod_i)]_vars

\* 32 messages are queued, the worker holds the first message and the
\* producer waits in the send of message 34.
C35_Witness ==
    /\ Len(chan) = ChannelCapacity
    /\ prod_pc = "send"
    /\ prod_i = ChannelCapacity + 2
    /\ stdout = <<>>

\* C36: at most one blocking-task thread runs and at most one result is
\* queued, and only while the worker waits for it; the results printed are
\* those of tasks 1, 2, 3, .. in that order; the messages are queued in send
\* order, and the worker takes message n from the channel only when the
\* results of all n - 1 messages before it are printed and no thread runs.
C36_OneAtATime ==
    /\ [](/\ Cardinality(threads) <= 1
          /\ Len(retchan) <= 1
          /\ (threads # {} \/ retchan # <<>>) => wk_pc = "wait"
          /\ stdout = [n \in 1..Len(stdout) |-> expensive_blocking_task(Task(n))]
          /\ \A k \in 1..Len(chan) : chan[k] = Task(chan[1][2] + k - 1))
    /\ [][Len(chan') < Len(chan)
          => /\ wk_s' = Task(Len(stdout) + 1)
             /\ wk_s' = Head(chan)
             /\ threads = {}
             /\ retchan = <<>>]_vars

\* Two results are printed and the thread of the third task runs while the
\* worker waits for it and further messages are queued.
C36_Witness ==
    /\ Len(stdout) = 2
    /\ threads = {Task(3)}
    /\ wk_pc = "wait"
    /\ Len(chan) > 1

\* update_handler as a whole: the User u after the update b.
Patched(u, b) ==
    [name |-> u.name,
     age |-> IF b.age # None THEN b.age[1] ELSE u.age,
     skills |-> IF b.skills # None THEN b.skills[1] ELSE u.skills]

\* C37: the lock is held exactly by the one update between its lock and its
\* response, and while it is held no GET and no other PATCH can take it;
\* whenever the lock is free the User is a value a complete update left (or
\* the initial one); every response is such a value: a GET returns the User
\* it found, a PATCH the User it found with all of its update applied, the
\* fields absent from the update and the name as it found them.
C37_PatchAtomic ==
    /\ user.name = Alice.name
    /\ mutex = 0 => user \in committed
    /\ \A r \in Req :
        /\ mutex = r <=> hpc[r] \in {"age", "skills", "clone"}
        /\ mutex # 0 => (~ENABLED user_handler(r) /\ ~ENABLED update_lock(r))
        /\ hsnap[r] \in committed
        /\ hpc[r] = "clone" => user = Patched(hsnap[r], hreq[r].body)
        /\ hpc[r] = "done"
           => /\ resp[r] # None
              /\ resp[r][1] \in committed
              /\ hreq[r].method = "GET" => resp[r] = Some(hsnap[r])
              /\ hreq[r].method = "PATCH"
                 => resp[r] = Some(Patched(hsnap[r], hreq[r].body))

\* An update of both fields has written the age and not yet the skills, so
\* the User is a value no complete update left, while a GET and another
\* PATCH wait for the lock.
C37_Witness ==
    \E p, g, q \in Req :
        /\ hpc[p] = "skills"
        /\ hreq[p].body.age # None
        /\ hreq[p].body.skills # None
        /\ user \notin committed
        /\ hpc[g] = "lock" /\ hreq[g].method = "GET"
        /\ hpc[q] = "lock" /\ hreq[q].method = "PATCH"

====
